---- MODULE Spec2Model ----
(***************************************************************************)
(* Model of media/cache/hevccache.go: the HEVC fast-join cache.            *)
(* A HevcCache keeps the latest VPS/SPS/PPS RTP packets and (optionally)   *)
(* the packets of the current group of pictures, and replays them into a   *)
(* subscriber queue.                                                       *)
(***************************************************************************)
EXTENDS Integers, Sequences, FiniteSets, TLC

(***************************************************************************)
(* Bounds of the model.                                                    *)
(***************************************************************************)
MaxOps == 4
MaxWrites == 3
NumReaders == 2
MaxBody == 8

(***************************************************************************)
(* Unit-type codes of package hevc (H.265 table 7-1, RFC 7798) and the     *)
(* channel tag of package rtp.                                             *)
(***************************************************************************)
NalBlaWLp == 16
NalCraNut == 21
NalVps == 32
NalSps == 33
NalPps == 34
NalStapInRtp == 48
NalFuInRtp == 49
ChannelVideo == 0
ChannelAudio == 2

Nil == 0

(***************************************************************************)
(* The packets offered to the cache.  A packet is identified by its index  *)
(* in Packs (the *rtp.Packet pointer); Payload is the byte sequence        *)
(* returned by Payload(), Size the value returned by Size().               *)
(***************************************************************************)
Packs ==
  << [Channel |-> ChannelVideo, Payload |-> <<64, 1, 0>>, Size |-> 1],
     [Channel |-> ChannelVideo, Payload |-> <<66, 1, 0>>, Size |-> 2],
     [Channel |-> ChannelVideo, Payload |-> <<68, 1, 0>>, Size |-> 4],
     [Channel |-> ChannelVideo, Payload |-> <<32, 1, 0>>, Size |-> 8],
     [Channel |-> ChannelVideo, Payload |-> <<44, 1, 0>>, Size |-> 16],
     [Channel |-> ChannelVideo, Payload |-> <<96, 1, 0, 2, 64, 1, 0, 2, 66, 1>>, Size |-> 32],
     [Channel |-> ChannelVideo, Payload |-> <<96, 1, 0, 2, 68, 1, 0, 2, 38, 1>>, Size |-> 64],
     [Channel |-> ChannelVideo, Payload |-> <<98, 1, 19>>, Size |-> 128],
     [Channel |-> ChannelVideo, Payload |-> <<98, 1, 161>>, Size |-> 256],
     [Channel |-> ChannelAudio, Payload |-> <<96, 1, 0, 2, 68, 1, 0, 2, 38, 1>>, Size |-> 512],
     [Channel |-> ChannelVideo, Payload |-> <<96, 1, 0, 1, 66, 0>>, Size |-> 1024],
     [Channel |-> ChannelVideo, Payload |-> <<98, 1, 149>>, Size |-> 2048],
     [Channel |-> ChannelVideo, Payload |-> <<38, 1>>, Size |-> 4096] >>

PackIds == 1..Len(Packs)

\* further packets: aggregation packets with a parameter set and a keyframe
\* slice, and fragmentation units without the start flag (continuation, end)
UnitPacks ==
  << [Channel |-> ChannelVideo, Payload |-> <<96, 1, 0, 2, 66, 1, 0, 2, 38, 1>>, Size |-> 8192],
     [Channel |-> ChannelVideo, Payload |-> <<96, 1, 0, 2, 38, 1, 0, 2, 64, 1>>, Size |-> 16384],
     [Channel |-> ChannelVideo, Payload |-> <<98, 1, 21>>, Size |-> 32768],
     [Channel |-> ChannelVideo, Payload |-> <<98, 1, 85>>, Size |-> 65536],
     [Channel |-> ChannelVideo, Payload |-> <<98, 1, 16>>, Size |-> 131072],
     [Channel |-> ChannelVideo, Payload |-> <<98, 1, 32>>, Size |-> 262144],
     [Channel |-> ChannelVideo, Payload |-> <<98, 1, 33>>, Size |-> 524288],
     [Channel |-> ChannelVideo, Payload |-> <<98, 1, 34>>, Size |-> 1048576] >>

AllPacks == Packs \o UnitPacks

\* the packets offered where aggregation and fragmentation are examined
UnitPackIds == {1, 4, 5, 7, 8, 12} \cup (Len(Packs) + 1)..Len(AllPacks)

Channel(p) == AllPacks[p].Channel
Payload(p) == AllPacks[p].Payload
Size(p) == AllPacks[p].Size

(***************************************************************************)
(* Classification of a payload.                                            *)
(***************************************************************************)
NoFlags == [vps |-> FALSE, sps |-> FALSE, pps |-> FALSE, islice |-> FALSE, panic |-> FALSE]

\* payload[i] of the Go code (0-based index)
At(payload, i) == payload[i + 1]

nalType(t, f) ==
  IF t >= NalBlaWLp /\ t <= NalCraNut THEN [f EXCEPT !.islice = TRUE]
  ELSE IF t = NalVps THEN [f EXCEPT !.vps = TRUE]
  ELSE IF t = NalSps THEN [f EXCEPT !.sps = TRUE]
  ELSE IF t = NalPps THEN [f EXCEPT !.pps = TRUE]
  ELSE f

\* the loop of the aggregation-packet branch, entered with read offset off;
\* an index outside the payload is Go's run-time panic
RECURSIVE ScanAp(_, _, _)
ScanAp(payload, off, f) ==
  IF off + 1 >= Len(payload) THEN [f EXCEPT !.panic = TRUE]
  ELSE LET nalSize == (At(payload, off) * 256 + At(payload, off + 1)) % 65536
       IN IF nalSize < 1 THEN f
          ELSE IF off + 2 >= Len(payload) THEN [f EXCEPT !.panic = TRUE]
          ELSE LET f2 == nalType((At(payload, off + 2) \div 2) % 64, f)
                   off2 == off + 2 + nalSize
               IN IF off2 >= Len(payload) THEN f2 ELSE ScanAp(payload, off2, f2)

\* the type of a fragment is classified whether or not its start flag is set
getPalyloadType_FuAlways(payload) ==
  IF Len(payload) < 3 THEN NoFlags
  ELSE LET naluType == (At(payload, 0) \div 2) % 64
       IN IF naluType = NalStapInRtp THEN ScanAp(payload, 2, NoFlags)
          ELSE IF naluType = NalFuInRtp THEN nalType(At(payload, 2) % 64, NoFlags)
          ELSE nalType(naluType, NoFlags)

getPalyloadType(payload) ==
  IF Len(payload) < 3 THEN NoFlags
  ELSE LET naluType == (At(payload, 0) \div 2) % 64
       IN IF naluType = NalStapInRtp THEN ScanAp(payload, 2, NoFlags)
          ELSE IF naluType = NalFuInRtp
               THEN IF (At(payload, 2) \div 128) % 2 = 1
                    THEN nalType(At(payload, 2) % 64, NoFlags)
                    ELSE NoFlags
          ELSE nalType(naluType, NoFlags)

(***************************************************************************)
(* The cache object and its three operations, as functions of the object.  *)
(***************************************************************************)
NewHevcCache(cacheGop) ==
  [cacheGop |-> cacheGop, gop |-> << >>, vps |-> Nil, sps |-> Nil, pps |-> Nil]

Returned(c, ret) == [cache |-> c, ret |-> ret, panic |-> FALSE]

\* the keyframe appends to the GOP buffer without resetting it
StoreGop_NoReset(c, pack, islice) ==
  IF c.cacheGop
  THEN IF islice \/ Len(c.gop) > 0 THEN [c EXCEPT !.gop = Append(c.gop, pack)] ELSE c
  ELSE c

\* the GOP buffer is filled whatever the flag says
StoreGop_IgnoresFlag(c, pack, islice) ==
  IF islice THEN [c EXCEPT !.gop = <<pack>>]
  ELSE IF Len(c.gop) > 0 THEN [c EXCEPT !.gop = Append(c.gop, pack)]
  ELSE c

\* only keyframe packets are buffered
StoreGop_KeyOnly(c, pack, islice) ==
  IF c.cacheGop /\ islice THEN [c EXCEPT !.gop = <<pack>>] ELSE c

\* a new GOP also drops the cached parameter sets
StoreGop_ClearsSlots(c, pack, islice) ==
  IF c.cacheGop
  THEN IF islice THEN [c EXCEPT !.gop = <<pack>>, !.vps = Nil, !.sps = Nil, !.pps = Nil]
       ELSE IF Len(c.gop) > 0 THEN [c EXCEPT !.gop = Append(c.gop, pack)]
       ELSE c
  ELSE c

\* the GOP part of CachePack: the cache after a packet without parameter set
StoreGop(c, pack, islice) ==
  IF c.cacheGop
  THEN IF islice THEN [c EXCEPT !.gop = <<pack>>]
       ELSE IF Len(c.gop) > 0 THEN [c EXCEPT !.gop = Append(c.gop, pack)]
       ELSE c
  ELSE c

\* SPS is tested before VPS
Store_SpsFirst(c, pack, t) ==
  IF t.sps THEN Returned([c EXCEPT !.sps = pack], FALSE)
  ELSE IF t.vps THEN Returned([c EXCEPT !.vps = pack], FALSE)
  ELSE IF t.pps THEN Returned([c EXCEPT !.pps = pack], FALSE)
  ELSE Returned(StoreGop(c, pack, t.islice), t.islice)

\* the PPS branch lacks its return and falls through to the GOP part
Store_PpsFallsThrough(c, pack, t) ==
  IF t.vps THEN Returned([c EXCEPT !.vps = pack], FALSE)
  ELSE IF t.sps THEN Returned([c EXCEPT !.sps = pack], FALSE)
  ELSE IF t.pps THEN Returned(StoreGop([c EXCEPT !.pps = pack], pack, t.islice), FALSE)
  ELSE Returned(StoreGop(c, pack, t.islice), t.islice)

\* the value returned is the keyframe flag only when GOP caching is enabled
Store_RetNeedsGop(c, pack, t) ==
  IF t.vps THEN Returned([c EXCEPT !.vps = pack], FALSE)
  ELSE IF t.sps THEN Returned([c EXCEPT !.sps = pack], FALSE)
  ELSE IF t.pps THEN Returned([c EXCEPT !.pps = pack], FALSE)
  ELSE Returned(StoreGop(c, pack, t.islice), c.cacheGop /\ t.islice)

\* the keyframe flag is tested before the parameter sets
Store_KeyframeFirst(c, pack, t) ==
  IF t.islice THEN Returned(StoreGop(c, pack, TRUE), TRUE)
  ELSE IF t.vps THEN Returned([c EXCEPT !.vps = pack], FALSE)
  ELSE IF t.sps THEN Returned([c EXCEPT !.sps = pack], FALSE)
  ELSE IF t.pps THEN Returned([c EXCEPT !.pps = pack], FALSE)
  ELSE Returned(StoreGop(c, pack, FALSE), FALSE)

\* the packet is stored in the slot of every kind it carries
Store_EveryKind(c, pack, t) ==
  IF t.vps \/ t.sps \/ t.pps
  THEN Returned([c EXCEPT !.vps = IF t.vps THEN pack ELSE @,
                          !.sps = IF t.sps THEN pack ELSE @,
                          !.pps = IF t.pps THEN pack ELSE @], FALSE)
  ELSE Returned(StoreGop(c, pack, t.islice), t.islice)

\* the part of CachePack under the lock, for a packet classified as t
Store(c, pack, t) ==
  IF t.vps THEN Returned([c EXCEPT !.vps = pack], FALSE)
  ELSE IF t.sps THEN Returned([c EXCEPT !.sps = pack], FALSE)
  ELSE IF t.pps THEN Returned([c EXCEPT !.pps = pack], FALSE)
  ELSE Returned(StoreGop(c, pack, t.islice), t.islice)

\* the channel is not looked at
CachePackOn_AnyChannel(c, pack) ==
  LET t == getPalyloadType(Payload(pack))
  IN IF t.panic THEN [cache |-> c, ret |-> FALSE, panic |-> TRUE]
     ELSE Store(c, pack, t)

\* result of CachePack(pack) on cache c: the cache afterwards, the value
\* returned, and whether the call panicked instead of returning
CachePackOn(c, pack) ==
  IF Channel(pack) # ChannelVideo THEN Returned(c, FALSE)
  ELSE LET t == getPalyloadType(Payload(pack))
       IN IF t.panic THEN [cache |-> c, ret |-> FALSE, panic |-> TRUE]
          ELSE Store(c, pack, t)

\* the PPS slot survives
ResetOn_KeepsPps(c) == [c EXCEPT !.vps = Nil, !.sps = Nil, !.gop = << >>]

ResetOn(c) == [c EXCEPT !.vps = Nil, !.sps = Nil, !.pps = Nil, !.gop = << >>]

RECURSIVE SumSize(_)
SumSize(s) == IF s = << >> THEN 0 ELSE Size(Head(s)) + SumSize(Tail(s))

\* the SPS packet is pushed before the VPS packet
PushToOn_SpsBeforeVps(c, dst) ==
  LET q1 == IF c.sps # Nil THEN Append(dst, c.sps) ELSE dst
      b1 == IF c.sps # Nil THEN Size(c.sps) ELSE 0
      q2 == IF c.vps # Nil THEN Append(q1, c.vps) ELSE q1
      b2 == IF c.vps # Nil THEN b1 + Size(c.vps) ELSE b1
      q3 == IF c.pps # Nil THEN Append(q2, c.pps) ELSE q2
      b3 == IF c.pps # Nil THEN b2 + Size(c.pps) ELSE b2
  IN IF c.cacheGop
     THEN [q |-> q3 \o c.gop, bytes |-> b3 + SumSize(c.gop)]
     ELSE [q |-> q3, bytes |-> b3]

\* the packets are put in front of the queue instead of behind it
PushToOn_InFront(c, dst) ==
  LET q1 == IF c.vps # Nil THEN <<c.vps>> ELSE << >>
      b1 == IF c.vps # Nil THEN Size(c.vps) ELSE 0
      q2 == IF c.sps # Nil THEN Append(q1, c.sps) ELSE q1
      b2 == IF c.sps # Nil THEN b1 + Size(c.sps) ELSE b1
      q3 == IF c.pps # Nil THEN Append(q2, c.pps) ELSE q2
      b3 == IF c.pps # Nil THEN b2 + Size(c.pps) ELSE b2
  IN IF c.cacheGop
     THEN [q |-> q3 \o c.gop \o dst, bytes |-> b3 + SumSize(c.gop)]
     ELSE [q |-> q3 \o dst, bytes |-> b3]

\* result of PushTo(dst) on cache c: the destination queue afterwards and the
\* byte count returned
PushToOn(c, dst) ==
  LET q1 == IF c.vps # Nil THEN Append(dst, c.vps) ELSE dst
      b1 == IF c.vps # Nil THEN Size(c.vps) ELSE 0
      q2 == IF c.sps # Nil THEN Append(q1, c.sps) ELSE q1
      b2 == IF c.sps # Nil THEN b1 + Size(c.sps) ELSE b1
      q3 == IF c.pps # Nil THEN Append(q2, c.pps) ELSE q2
      b3 == IF c.pps # Nil THEN b2 + Size(c.pps) ELSE b2
  IN IF c.cacheGop
     THEN [q |-> q3 \o c.gop, bytes |-> b3 + SumSize(c.gop)]
     ELSE [q |-> q3, bytes |-> b3]

(***************************************************************************)
(* State.                                                                  *)
(*   cache   the HevcCache object                                          *)
(*   q       the destination queue handed to PushTo                        *)
(*   log     the calls made so far, each with what it returned             *)
(*   fault   a CachePack call panicked (the caller does not recover)       *)
(*   twin, twinLog   a second cache, constructed with the opposite flag,   *)
(*           and the calls made on it                                      *)
(*   lock    the sync.RWMutex l of the cache: held by a writer, number of  *)
(*           readers holding it, a writer is waiting in Lock()             *)
(*   writer  the goroutine that calls CachePack and Reset, step by step    *)
(*   readers the goroutines that call PushTo, each with its own queue      *)
(*   committed  the cache as the last complete write operation left it     *)
(*   scan    one run of getPalyloadType, step by step: the payload, the    *)
(*           position in the code, the read offset off, the flags found    *)
(*           so far and the number of loop iterations begun                *)
(***************************************************************************)
VARIABLES cache, q, log, fault, twin, twinLog, lock, writer, readers, committed, scan

seqVars == <<q, log, twin, twinLog>>

concVars == <<lock, writer, readers, committed>>

vars == <<cache, q, log, fault, twin, twinLog, lock, writer, readers, committed, scan>>

Readers == 1..NumReaders

\* the packets the concurrent writer ingests
ConcPackIds == {1, 4, 5, 7, 11}

Entry(op, pack, ret, panic, bytes, qlen) ==
  [op |-> op, pack |-> pack, ret |-> ret, panic |-> panic, bytes |-> bytes, qlen |-> qlen]

Init ==
  /\ cache \in {NewHevcCache(g) : g \in BOOLEAN}
  /\ q = << >>
  /\ log = << >>
  /\ fault = FALSE
  /\ twin = NewHevcCache(~cache.cacheGop)
  /\ twinLog = << >>
  /\ lock = [w |-> FALSE, r |-> 0, pending |-> FALSE]
  /\ writer = [pc |-> "idle", op |-> "none", pack |-> Nil, t |-> NoFlags, n |-> 0]
  /\ readers = [r \in Readers |-> [pc |-> "idle", q |-> << >>, bytes |-> 0, seen |-> {}]]
  /\ committed = cache
  /\ scan = [payload |-> << >>, pc |-> "idle", off |-> 0, f |-> NoFlags, iters |-> 0]

CachePack(pack) ==
  /\ ~fault
  /\ Len(log) < MaxOps
  /\ LET r == CachePackOn(cache, pack)
     IN /\ cache' = r.cache
        /\ fault' = r.panic
        /\ log' = Append(log, Entry("CachePack", pack, r.ret, r.panic, 0, 0))
  /\ UNCHANGED <<q, twin, twinLog>>
  /\ UNCHANGED <<concVars, scan>>

Reset ==
  /\ ~fault
  /\ Len(log) < MaxOps
  /\ cache' = ResetOn(cache)
  /\ log' = Append(log, Entry("Reset", Nil, FALSE, FALSE, 0, 0))
  /\ UNCHANGED <<q, fault, twin, twinLog>>
  /\ UNCHANGED <<concVars, scan>>

PushTo ==
  /\ ~fault
  /\ Len(log) < MaxOps
  /\ LET r == PushToOn(cache, q)
     IN /\ q' = r.q
        /\ log' = Append(log, Entry("PushTo", Nil, FALSE, FALSE, r.bytes, Len(q)))
  /\ UNCHANGED <<cache, fault, twin, twinLog>>
  /\ UNCHANGED <<concVars, scan>>

Next ==
  \/ \E pack \in PackIds : CachePack(pack)
  \/ Reset
  \/ PushTo

Spec == Init /\ [][Next]_vars

(***************************************************************************)
(* Two caches that differ only in the flag, fed the same calls.            *)
(***************************************************************************)
TwinCachePack(pack) ==
  /\ ~fault
  /\ Len(log) < MaxOps
  /\ LET r == CachePackOn(cache, pack)
         t == CachePackOn(twin, pack)
     IN /\ cache' = r.cache
        /\ twin' = t.cache
        /\ fault' = (r.panic \/ t.panic)
        /\ log' = Append(log, Entry("CachePack", pack, r.ret, r.panic, 0, 0))
        /\ twinLog' = Append(twinLog, Entry("CachePack", pack, t.ret, t.panic, 0, 0))
  /\ UNCHANGED q
  /\ UNCHANGED <<concVars, scan>>

TwinReset ==
  /\ ~fault
  /\ Len(log) < MaxOps
  /\ cache' = ResetOn(cache)
  /\ twin' = ResetOn(twin)
  /\ log' = Append(log, Entry("Reset", Nil, FALSE, FALSE, 0, 0))
  /\ twinLog' = Append(twinLog, Entry("Reset", Nil, FALSE, FALSE, 0, 0))
  /\ UNCHANGED <<q, fault>>
  /\ UNCHANGED <<concVars, scan>>

NextTwin ==
  \/ \E pack \in PackIds : TwinCachePack(pack)
  \/ TwinReset

SpecTwin == Init /\ [][NextTwin]_vars

(***************************************************************************)
(* The cache fed with aggregation packets and fragmentation units.         *)
(***************************************************************************)
NextUnits ==
  \/ \E pack \in UnitPackIds : CachePack(pack)
  \/ Reset

SpecUnits == Init /\ [][NextUnits]_vars

(***************************************************************************)
(* The operations step by step, under the RWMutex: one goroutine calls     *)
(* CachePack and Reset, every reader goroutine calls PushTo once on its    *)
(* own queue.                                                              *)
(***************************************************************************)
\* Lock() returns at once although readers hold the mutex
CanLock_IgnoresReaders(l) == ~l.w

\* Lock() returns when no writer and no reader holds the mutex
CanLock(l) == ~l.w /\ l.r = 0

\* RLock() returns when no writer holds the mutex or waits for it
CanRLock(l) == ~l.w /\ ~l.pending

\* CachePack up to the Lock() call: the channel test and the classification
W_CachePack(pack) ==
  /\ ~fault
  /\ writer.pc = "idle"
  /\ writer.n < MaxWrites
  /\ IF Channel(pack) # ChannelVideo
     THEN /\ writer' = [writer EXCEPT !.n = @ + 1]
          /\ UNCHANGED fault
     ELSE LET t == getPalyloadType(Payload(pack))
          IN IF t.panic
             THEN /\ fault' = TRUE
                  /\ writer' = [writer EXCEPT !.pc = "panic", !.op = "CachePack", !.pack = pack]
             ELSE /\ writer' = [writer EXCEPT !.pc = "Lock", !.op = "CachePack", !.pack = pack, !.t = t]
                  /\ UNCHANGED fault
  /\ UNCHANGED <<cache, lock, readers, committed, seqVars, scan>>

W_Reset ==
  /\ ~fault
  /\ writer.pc = "idle"
  /\ writer.n < MaxWrites
  /\ writer' = [writer EXCEPT !.pc = "Lock", !.op = "Reset", !.pack = Nil, !.t = NoFlags]
  /\ UNCHANGED <<cache, fault, lock, readers, committed, seqVars, scan>>

\* l.Lock(): announce the writer, which stops new readers
W_Lock ==
  /\ ~fault
  /\ writer.pc = "Lock"
  /\ lock' = [lock EXCEPT !.pending = TRUE]
  /\ writer' = [writer EXCEPT !.pc = "LockWait"]
  /\ UNCHANGED <<cache, fault, readers, committed, seqVars, scan>>

\* l.Lock() returns
W_Locked ==
  /\ ~fault
  /\ writer.pc = "LockWait"
  /\ CanLock(lock)
  /\ lock' = [lock EXCEPT !.w = TRUE, !.pending = FALSE]
  /\ writer' = [writer EXCEPT !.pc = IF writer.op = "Reset" THEN "ClearVps" ELSE "Store"]
  /\ UNCHANGED <<cache, fault, readers, committed, seqVars, scan>>

\* the body of CachePack up to its first write; a keyframe first resets the
\* GOP buffer and pushes in a second step
W_Store ==
  /\ ~fault
  /\ writer.pc = "Store"
  /\ LET t == writer.t
         pack == writer.pack
     IN IF t.vps THEN cache' = [cache EXCEPT !.vps = pack] /\ writer' = [writer EXCEPT !.pc = "Unlock"]
        ELSE IF t.sps THEN cache' = [cache EXCEPT !.sps = pack] /\ writer' = [writer EXCEPT !.pc = "Unlock"]
        ELSE IF t.pps THEN cache' = [cache EXCEPT !.pps = pack] /\ writer' = [writer EXCEPT !.pc = "Unlock"]
        ELSE IF cache.cacheGop /\ t.islice
             THEN cache' = [cache EXCEPT !.gop = << >>] /\ writer' = [writer EXCEPT !.pc = "Push"]
        ELSE IF cache.cacheGop /\ Len(cache.gop) > 0
             THEN cache' = [cache EXCEPT !.gop = Append(@, pack)] /\ writer' = [writer EXCEPT !.pc = "Unlock"]
        ELSE cache' = cache /\ writer' = [writer EXCEPT !.pc = "Unlock"]
  /\ UNCHANGED <<fault, lock, readers, committed, seqVars, scan>>

\* cache.gop.Push(rtppack) after cache.gop.Reset()
W_Push ==
  /\ ~fault
  /\ writer.pc = "Push"
  /\ cache' = [cache EXCEPT !.gop = Append(@, writer.pack)]
  /\ writer' = [writer EXCEPT !.pc = "Unlock"]
  /\ UNCHANGED <<fault, lock, readers, committed, seqVars, scan>>

W_ClearVps ==
  /\ ~fault
  /\ writer.pc = "ClearVps"
  /\ cache' = [cache EXCEPT !.vps = Nil]
  /\ writer' = [writer EXCEPT !.pc = "ClearSps"]
  /\ UNCHANGED <<fault, lock, readers, committed, seqVars, scan>>

W_ClearSps ==
  /\ ~fault
  /\ writer.pc = "ClearSps"
  /\ cache' = [cache EXCEPT !.sps = Nil]
  /\ writer' = [writer EXCEPT !.pc = "ClearPps"]
  /\ UNCHANGED <<fault, lock, readers, committed, seqVars, scan>>

W_ClearPps ==
  /\ ~fault
  /\ writer.pc = "ClearPps"
  /\ cache' = [cache EXCEPT !.pps = Nil]
  /\ writer' = [writer EXCEPT !.pc = "GopReset"]
  /\ UNCHANGED <<fault, lock, readers, committed, seqVars, scan>>

W_GopReset ==
  /\ ~fault
  /\ writer.pc = "GopReset"
  /\ cache' = [cache EXCEPT !.gop = << >>]
  /\ writer' = [writer EXCEPT !.pc = "Unlock"]
  /\ UNCHANGED <<fault, lock, readers, committed, seqVars, scan>>

\* the deferred l.Unlock(): the write operation is complete
W_Unlock ==
  /\ ~fault
  /\ writer.pc = "Unlock"
  /\ lock' = [lock EXCEPT !.w = FALSE]
  /\ writer' = [writer EXCEPT !.pc = "idle", !.n = @ + 1]
  /\ committed' = cache
  /\ readers' = [r \in Readers |->
                   IF readers[r].pc \in {"idle", "RLock", "done"} THEN readers[r]
                   ELSE [readers[r] EXCEPT !.seen = @ \cup {cache}]]
  /\ UNCHANGED <<cache, fault, seqVars, scan>>

\* PushTo is called: bytes := 0, up to the RLock() call
R_PushTo(r) ==
  /\ ~fault
  /\ readers[r].pc = "idle"
  /\ readers' = [readers EXCEPT ![r].pc = "RLock", ![r].bytes = 0]
  /\ UNCHANGED <<cache, fault, lock, writer, committed, seqVars, scan>>

\* l.RLock() returns
R_RLock(r) ==
  /\ ~fault
  /\ readers[r].pc = "RLock"
  /\ CanRLock(lock)
  /\ lock' = [lock EXCEPT !.r = @ + 1]
  /\ readers' = [readers EXCEPT ![r].pc = "Vps", ![r].seen = {committed}]
  /\ UNCHANGED <<cache, fault, writer, committed, seqVars, scan>>

\* one of the three tests of a slot, with its push
R_PushSlot(r, at, k, next) ==
  /\ ~fault
  /\ readers[r].pc = at
  /\ readers' = IF cache[k] # Nil
                THEN [readers EXCEPT ![r].pc = next, ![r].q = Append(@, cache[k]),
                                     ![r].bytes = @ + Size(cache[k])]
                ELSE [readers EXCEPT ![r].pc = next]
  /\ UNCHANGED <<cache, fault, lock, writer, committed, seqVars, scan>>

R_PushVps(r) == R_PushSlot(r, "Vps", "vps", "Sps")

R_PushSps(r) == R_PushSlot(r, "Sps", "sps", "Pps")

R_PushPps(r) == R_PushSlot(r, "Pps", "pps", "Gop")

\* packs := cache.gop.Elems(), PushN(packs) and the loop over packs
R_PushGop(r) ==
  /\ ~fault
  /\ readers[r].pc = "Gop"
  /\ readers' = IF cache.cacheGop
                THEN [readers EXCEPT ![r].pc = "RUnlock", ![r].q = @ \o cache.gop,
                                     ![r].bytes = @ + SumSize(cache.gop)]
                ELSE [readers EXCEPT ![r].pc = "RUnlock"]
  /\ UNCHANGED <<cache, fault, lock, writer, committed, seqVars, scan>>

\* the deferred l.RUnlock() and the return of bytes
R_RUnlock(r) ==
  /\ ~fault
  /\ readers[r].pc = "RUnlock"
  /\ lock' = [lock EXCEPT !.r = @ - 1]
  /\ readers' = [readers EXCEPT ![r].pc = "done"]
  /\ UNCHANGED <<cache, fault, writer, committed, seqVars, scan>>

NextConc ==
  \/ \E pack \in ConcPackIds : W_CachePack(pack)
  \/ W_Reset
  \/ W_Lock
  \/ W_Locked
  \/ W_Store
  \/ W_Push
  \/ W_ClearVps
  \/ W_ClearSps
  \/ W_ClearPps
  \/ W_GopReset
  \/ W_Unlock
  \/ \E r \in Readers : R_PushTo(r)
  \/ \E r \in Readers : R_RLock(r)
  \/ \E r \in Readers : R_PushVps(r)
  \/ \E r \in Readers : R_PushSps(r)
  \/ \E r \in Readers : R_PushPps(r)
  \/ \E r \in Readers : R_PushGop(r)
  \/ \E r \in Readers : R_RUnlock(r)

SpecConc == Init /\ [][NextConc]_vars

\* Fair scheduling: a goroutine that is inside a call and can take its next
\* step eventually takes it.  Whether and when a call is made is left open.
WriterRun ==
  \/ W_Lock
  \/ W_Locked
  \/ W_Store
  \/ W_Push
  \/ W_ClearVps
  \/ W_ClearSps
  \/ W_ClearPps
  \/ W_GopReset
  \/ W_Unlock

ReaderRun(r) ==
  \/ R_RLock(r)
  \/ R_PushVps(r)
  \/ R_PushSps(r)
  \/ R_PushPps(r)
  \/ R_PushGop(r)
  \/ R_RUnlock(r)

SpecConcFair ==
  /\ SpecConc
  /\ WF_vars(WriterRun)
  /\ \A r \in Readers : WF_vars(ReaderRun(r))

(***************************************************************************)
(* getPalyloadType step by step, one step per iteration of the loop over   *)
(* the units of an aggregation packet.  The payloads are a first byte of   *)
(* FirstBytes, a second byte (which the code never reads) and up to        *)
(* MaxBody bytes of BodyBytes.                                             *)
(***************************************************************************)
FirstBytes == {96, 98, 64}

BodyBytes == {0, 1, 38, 64}

InitScan ==
  /\ cache = NewHevcCache(TRUE)
  /\ q = << >>
  /\ log = << >>
  /\ fault = FALSE
  /\ twin = NewHevcCache(FALSE)
  /\ twinLog = << >>
  /\ lock = [w |-> FALSE, r |-> 0, pending |-> FALSE]
  /\ writer = [pc |-> "idle", op |-> "none", pack |-> Nil, t |-> NoFlags, n |-> 0]
  /\ readers = [r \in Readers |-> [pc |-> "idle", q |-> << >>, bytes |-> 0, seen |-> {}]]
  /\ committed = cache
  /\ \E h \in FirstBytes, n \in 0..MaxBody : \E b \in [1..n -> BodyBytes] :
       scan = [payload |-> <<h, 1>> \o b, pc |-> "start", off |-> 0, f |-> NoFlags, iters |-> 0]

\* the length prefix is not skipped: the type is read at off and off advances
\* by nalSize only
ApIter_NoSkip(payload, off, f) ==
  IF off + 1 >= Len(payload) THEN [pc |-> "panic", off |-> off, f |-> f]
  ELSE LET nalSize == (At(payload, off) * 256 + At(payload, off + 1)) % 65536
       IN IF nalSize < 1 THEN [pc |-> "done", off |-> off, f |-> f]
          ELSE LET f2 == nalType((At(payload, off) \div 2) % 64, f)
                   off2 == off + nalSize
               IN [pc |-> IF off2 >= Len(payload) THEN "done" ELSE "ap", off |-> off2, f |-> f2]

\* a zero length field is skipped instead of ending the scan
ApIter_SkipsZero(payload, off, f) ==
  IF off + 1 >= Len(payload) THEN [pc |-> "panic", off |-> off, f |-> f]
  ELSE LET nalSize == (At(payload, off) * 256 + At(payload, off + 1)) % 65536
       IN IF nalSize < 1
          THEN [pc |-> IF off + 2 >= Len(payload) THEN "done" ELSE "ap", off |-> off + 2, f |-> f]
          ELSE IF off + 2 >= Len(payload) THEN [pc |-> "panic", off |-> off + 2, f |-> f]
          ELSE LET f2 == nalType((At(payload, off + 2) \div 2) % 64, f)
                   off2 == off + 2 + nalSize
               IN [pc |-> IF off2 >= Len(payload) THEN "done" ELSE "ap", off |-> off2, f |-> f2]

\* one iteration of the loop, entered with read offset off and flags f: where
\* the code is afterwards ("ap" at the top of the loop again, "done" returned,
\* "panic" index out of range), the read offset and the flags
ApIter(payload, off, f) ==
  IF off + 1 >= Len(payload) THEN [pc |-> "panic", off |-> off, f |-> f]
  ELSE LET nalSize == (At(payload, off) * 256 + At(payload, off + 1)) % 65536
       IN IF nalSize < 1 THEN [pc |-> "done", off |-> off, f |-> f]
          ELSE IF off + 2 >= Len(payload) THEN [pc |-> "panic", off |-> off + 2, f |-> f]
          ELSE LET f2 == nalType((At(payload, off + 2) \div 2) % 64, f)
                   off2 == off + 2 + nalSize
               IN [pc |-> IF off2 >= Len(payload) THEN "done" ELSE "ap", off |-> off2, f |-> f2]

\* the length test, the type of the first byte and the two branches without
\* a loop
S_Enter ==
  /\ scan.pc = "start"
  /\ LET payload == scan.payload
     IN IF Len(payload) < 3 THEN scan' = [scan EXCEPT !.pc = "done"]
        ELSE LET naluType == (At(payload, 0) \div 2) % 64
             IN IF naluType = NalStapInRtp THEN scan' = [scan EXCEPT !.pc = "ap", !.off = 2]
                ELSE IF naluType = NalFuInRtp
                     THEN IF (At(payload, 2) \div 128) % 2 = 1
                          THEN scan' = [scan EXCEPT !.pc = "done",
                                                    !.f = nalType(At(payload, 2) % 64, NoFlags)]
                          ELSE scan' = [scan EXCEPT !.pc = "done"]
                ELSE scan' = [scan EXCEPT !.pc = "done", !.f = nalType(naluType, NoFlags)]
  /\ UNCHANGED <<cache, fault, concVars, seqVars>>

\* one iteration of the loop over the embedded units
S_ApIter ==
  /\ scan.pc = "ap"
  /\ LET r == ApIter(scan.payload, scan.off, scan.f)
     IN scan' = [scan EXCEPT !.pc = r.pc, !.off = r.off, !.f = r.f, !.iters = @ + 1]
  /\ UNCHANGED <<cache, fault, concVars, seqVars>>

NextScan ==
  \/ S_Enter
  \/ S_ApIter

SpecScan == InitScan /\ [][NextScan]_vars

(***************************************************************************)
(* Reading the call log.                                                   *)
(***************************************************************************)
Last(s) == s[Len(s)]

Max(S) == CHOOSE x \in S : \A y \in S : y <= x

\* log entry e is an Ingest of a video packet that returned
IsIngest(e) ==
  /\ e.op = "CachePack"
  /\ ~e.panic
  /\ Channel(e.pack) = ChannelVideo

Ingested(i) == IsIngest(log[i])

\* the classification of every packet of Packs
ClassOf == [p \in 1..Len(AllPacks) |-> getPalyloadType(Payload(p))]

Class(pack) == ClassOf[pack]

HasParam(pack) == Class(pack).vps \/ Class(pack).sps \/ Class(pack).pps

\* index of the last Reset call, 0 if there was none
LastReset == Max({0} \cup {i \in 1..Len(log) : log[i].op = "Reset"})

\* index of the last Ingest call since the last Reset that returned true
LastTrue == Max({0} \cup {i \in (LastReset + 1)..Len(log) : Ingested(i) /\ log[i].ret})

\* the packets of the calls lo..Len(log) that satisfy Keep, in call order
PacksFrom(lo, Keep(_)) ==
  LET idx == SelectSeq([i \in 1..(Len(log) - lo + 1) |-> lo + i - 1], Keep)
  IN [j \in 1..Len(idx) |-> log[idx[j]].pack]

NoParamIngest(i) == Ingested(i) /\ ~HasParam(log[i].pack)

ExpectedGop ==
  IF LastTrue = 0 THEN << >>
  ELSE <<log[LastTrue].pack>> \o PacksFrom(LastTrue + 1, NoParamIngest)

\* C1: with GOP caching enabled the GOP buffer is empty when no Ingest has
\* returned true since the last Reset, and otherwise is the packet of the most
\* recent Ingest that returned true followed by every later video packet
\* without a parameter set, in arrival order.
C1_GopContent == cache.cacheGop => cache.gop = ExpectedGop

\* a second keyframe has discarded a GOP and the new GOP has grown
C1_Witness ==
  /\ cache.cacheGop
  /\ Len(cache.gop) >= 2
  /\ \E i \in 1..Len(log) : i > LastReset /\ i < LastTrue /\ Ingested(i) /\ log[i].ret

RECURSIVE Range(_)
Range(s) == IF s = << >> THEN {} ELSE {Head(s)} \cup Range(Tail(s))

NonNil(p) == p # Nil

Slots(c) == SelectSeq(<<c.vps, c.sps, c.pps>>, NonNil)

Pushed == SubSeq(q, Last(log).qlen + 1, Len(q))

\* C2: a Replay appends the VPS, SPS and PPS packets that are present, in
\* that order, then (with GOP caching) the GOP buffer in its order; the number
\* pushed is the number of non-empty slots plus the GOP buffer length and the
\* value returned is the sum of the sizes of the packets pushed.
C2_Replay ==
  (log # << >> /\ Last(log).op = "PushTo") =>
    /\ Pushed = Slots(cache) \o (IF cache.cacheGop THEN cache.gop ELSE << >>)
    /\ Len(Pushed) = Cardinality({k \in {"vps", "sps", "pps"} : cache[k] # Nil}) + Len(cache.gop)
    /\ Last(log).bytes = SumSize(Pushed)

\* a Replay from a cache with two slots filled, one empty and a GOP
C2_Witness ==
  /\ log # << >> /\ Last(log).op = "PushTo"
  /\ Len(Slots(cache)) = 2
  /\ Len(cache.gop) >= 1
  /\ Len(Pushed) = 3

Kinds == {"vps", "sps", "pps"}

\* the most recent video packet ingested since the last Reset that satisfies
\* Sel, Nil if there is none
LatestPack(Sel(_)) ==
  LET I == {i \in (LastReset + 1)..Len(log) : Ingested(i) /\ Sel(log[i].pack)}
  IN IF I = {} THEN Nil ELSE log[Max(I)].pack

\* C3 as stated: every Ingest of a packet classified with kind K returns
\* false and the slot of K holds the latest packet carrying K.
C3_LatestWinsPerKind ==
  /\ \A i \in 1..Len(log) : (Ingested(i) /\ HasParam(log[i].pack)) => ~log[i].ret
  /\ \A k \in Kinds : cache[k] = LatestPack(LAMBDA p : Class(p)[k])

\* the kind under which CachePack files a packet: VPS before SPS before PPS
FiledAs(pack, k) ==
  CASE k = "vps" -> Class(pack).vps
    [] k = "sps" -> Class(pack).sps /\ ~Class(pack).vps
    [] k = "pps" -> Class(pack).pps /\ ~Class(pack).sps /\ ~Class(pack).vps

\* C3 (amended): every Ingest of a packet classified with a parameter set
\* returns false, and the slot of K holds the latest packet whose first kind
\* in the order VPS, SPS, PPS is K, or is empty if there was none.
C3_LatestWinsFirstKind ==
  /\ \A i \in 1..Len(log) : (Ingested(i) /\ HasParam(log[i].pack)) => ~log[i].ret
  /\ \A k \in Kinds : cache[k] = LatestPack(LAMBDA p : FiledAs(p, k))

\* an aggregation packet with VPS and SPS was filed as VPS after an SPS packet,
\* and a second SPS packet has replaced the first
C3_Witness ==
  /\ cache.vps # Nil /\ Class(cache.vps).sps
  /\ cache.sps # Nil
  /\ \E i \in 1..Len(log) :
       /\ i > LastReset /\ Ingested(i)
       /\ Class(log[i].pack).sps /\ ~Class(log[i].pack).vps
       /\ log[i].pack # cache.sps

\* the call that leads from the current state to the next one
Called(op) == Len(log') = Len(log) + 1 /\ Last(log').op = op

\* C4: the GOP buffer holds no packet classified with a parameter set, a slot
\* holds only such packets, no step appends a parameter-set packet to the GOP
\* buffer, and an Ingest of a parameter-set packet leaves the buffer alone.
C4_SlotsAndGopDisjoint ==
  /\ [](/\ \A p \in Range(cache.gop) : ~HasParam(p)
        /\ \A k \in Kinds : cache[k] # Nil => (HasParam(cache[k]) /\ cache[k] \notin Range(cache.gop)))
  /\ [][/\ \A p \in Range(cache'.gop) \ Range(cache.gop) : ~HasParam(p)
        /\ (Called("CachePack") /\ IsIngest(Last(log')) /\ HasParam(Last(log').pack))
             => cache'.gop = cache.gop]_vars

\* a parameter-set packet was ingested while a GOP was being buffered
C4_Witness ==
  /\ log # << >> /\ Ingested(Len(log)) /\ HasParam(Last(log).pack)
  /\ Len(cache.gop) >= 2
  /\ Class(Last(log).pack).islice

\* C5: after Reset the cache equals a new cache with the same flag, a Replay
\* right after Reset pushes nothing and returns 0, a non-keyframe packet
\* ingested right after Reset is not buffered, and a second Reset changes
\* nothing.
C5_Reset ==
  /\ [](log # << >> =>
         /\ Last(log).op = "Reset" => cache = NewHevcCache(cache.cacheGop)
         /\ (Len(log) >= 2 /\ log[Len(log) - 1].op = "Reset") =>
              /\ Last(log).op = "PushTo" => (Len(q) = Last(log).qlen /\ Last(log).bytes = 0)
              /\ (Ingested(Len(log)) /\ ~Last(log).ret) => cache.gop = << >>)
  /\ [][(log # << >> /\ Last(log).op = "Reset" /\ Called("Reset")) => cache' = cache]_vars

\* Reset emptied a cache that held a parameter set and a GOP, and a Replay
\* followed
C5_Witness ==
  /\ Len(log) >= 4
  /\ Last(log).op = "PushTo"
  /\ log[Len(log) - 1].op = "Reset"
  /\ Ingested(Len(log) - 2) /\ Ingested(Len(log) - 3)
  /\ HasParam(log[Len(log) - 3].pack)
  /\ log[Len(log) - 2].ret
  /\ cache.cacheGop

\* C6: with GOP caching disabled the GOP buffer stays empty, a Replay pushes
\* only the cached parameter-set packets, and an Ingest of a keyframe packet
\* without a parameter set returns true.
C6_GopDisabled ==
  ~cache.cacheGop =>
    /\ cache.gop = << >>
    /\ (log # << >> /\ Last(log).op = "PushTo") => (Pushed = Slots(cache) /\ Len(Pushed) <= 3)
    /\ \A i \in 1..Len(log) :
         (Ingested(i) /\ ~HasParam(log[i].pack) /\ Class(log[i].pack).islice) => log[i].ret

\* with caching disabled a keyframe returned true and a Replay pushed a slot
C6_Witness ==
  /\ ~cache.cacheGop
  /\ log # << >> /\ Last(log).op = "PushTo" /\ Len(Pushed) >= 1
  /\ \E i \in 1..Len(log) : Ingested(i) /\ log[i].ret

\* C7: two caches that differ only in the GOP-caching flag and are fed the
\* same Ingest and Reset calls return the same value from every Ingest and
\* hold the same three slots after every call; for a video packet without a
\* parameter set the value is true exactly when it is classified as a
\* keyframe-class slice.
C7_FlagIndependent ==
  /\ twin.cacheGop # cache.cacheGop
  /\ Len(twinLog) = Len(log)
  /\ \A i \in 1..Len(log) :
       /\ twinLog[i].ret = log[i].ret
       /\ twinLog[i].panic = log[i].panic
       /\ (Ingested(i) /\ ~HasParam(log[i].pack)) => (log[i].ret <=> Class(log[i].pack).islice)
  /\ \A k \in Kinds : twin[k] = cache[k]

\* the two caches have ingested a parameter set, a keyframe and a later
\* packet, and their GOP buffers differ
C7_Witness ==
  /\ twin.gop # cache.gop
  /\ Len(twin.gop) + Len(cache.gop) >= 2
  /\ Slots(cache) # << >>
  /\ Len(twinLog) >= 3

\* C8: an Ingest of a packet that is not on the video channel returns false
\* and leaves the three slots and the GOP buffer unchanged.
C8_NonVideoIgnored ==
  [][(Called("CachePack") /\ Channel(Last(log').pack) # ChannelVideo) =>
       (~Last(log').ret /\ ~Last(log').panic /\ cache' = cache)]_vars

\* a non-video packet with a keyframe or parameter-set payload was ingested
\* into a cache that holds a slot and a GOP
C8_Witness ==
  /\ log # << >> /\ Last(log).op = "CachePack"
  /\ Channel(Last(log).pack) # ChannelVideo
  /\ (Class(Last(log).pack).islice \/ HasParam(Last(log).pack))
  /\ cache.gop # << >> /\ Slots(cache) # << >>

\* C9: every Ingest call returns a boolean; none faults on its payload.
C9_IngestNeverFaults == ~fault /\ \A i \in 1..Len(log) : ~log[i].panic

\* the positions of PushTo at which the reader holds the mutex
Reading == {"Vps", "Sps", "Pps", "Gop", "RUnlock"}

\* the packets of a replayed queue that come from the GOP buffer
NoParam(p) == ~HasParam(p)

GopPart(s) == SelectSeq(s, NoParam)

\* C10: every finished Replay has pushed, and returned the size of, exactly
\* what one cache state left by a complete write operation (or by the
\* construction) during the Replay yields; its GOP part is empty or starts
\* with a keyframe packet; and no write changes the cache while a Replay
\* holds the mutex.
C10_ReplayAtomic ==
  /\ [](\A r \in Readers : readers[r].pc = "done" =>
          /\ \E c \in readers[r].seen :
               /\ readers[r].q = PushToOn(c, << >>).q
               /\ readers[r].bytes = PushToOn(c, << >>).bytes
          /\ GopPart(readers[r].q) # << >> => Class(Head(GopPart(readers[r].q))).islice)
  /\ [][(\E r \in Readers : readers[r].pc \in Reading) => cache' = cache]_vars

\* a Replay has finished with a parameter set and a GOP while the writer
\* waits in Lock() for a second Replay that is still reading
C10_Witness ==
  /\ \E r \in Readers :
       /\ readers[r].pc = "done"
       /\ Len(GopPart(readers[r].q)) >= 1
       /\ Len(readers[r].q) > Len(GopPart(readers[r].q))
  /\ \E r \in Readers : readers[r].pc \in {"Sps", "Pps", "Gop"}
  /\ writer.pc = "LockWait" /\ lock.pending

\* the slots of cache c
SlotsOf(c) == [k \in Kinds |-> c[k]]

\* C11: an Ingest of a video packet classified with an SPS (and no VPS) and a
\* keyframe slice stores the packet in the SPS slot, returns false and leaves
\* the GOP buffer unchanged; every packet classified with a parameter set and
\* a keyframe slice is stored in a slot, returns false and leaves the GOP
\* buffer unchanged.
C11_ParamBeforeKeyframe ==
  [][(Called("CachePack") /\ IsIngest(Last(log')) /\ HasParam(Last(log').pack)
        /\ Class(Last(log').pack).islice) =>
       /\ ~Last(log').ret
       /\ cache'.gop = cache.gop
       /\ \E k \in Kinds : cache'[k] = Last(log').pack
       /\ (Class(Last(log').pack).sps /\ ~Class(Last(log').pack).vps) =>
            (cache'.sps = Last(log').pack /\ cache'.vps = cache.vps /\ cache'.pps = cache.pps)]_vars

\* an aggregation packet of an SPS unit and a keyframe unit was ingested while
\* a GOP was buffered and the SPS slot was empty
C11_Witness ==
  /\ log # << >> /\ Ingested(Len(log))
  /\ Class(Last(log).pack).sps /\ Class(Last(log).pack).islice
  /\ cache.sps = Last(log).pack
  /\ Len(cache.gop) >= 2
  /\ Len(log) = 3

\* payload p is a fragmentation unit, and one whose start flag is clear
IsFu(p) == Len(p) >= 3 /\ (p[1] \div 2) % 64 = NalFuInRtp

IsFuNonStart(p) == IsFu(p) /\ (p[3] \div 128) % 2 = 0

IsPrefix(s, t) == Len(s) <= Len(t) /\ SubSeq(t, 1, Len(s)) = s

\* the fragmentation units of 3 and 4 bytes with a clear start flag, over
\* every value of the type field and of the end flag, are classified with no
\* flag
NonStartUnclassified ==
  \A h \in {98, 99, 226} : \A b \in 0..127 :
    /\ IsFuNonStart(<<h, 1, b>>)
    /\ getPalyloadType(<<h, 1, b>>) = NoFlags
    /\ getPalyloadType(<<h, 1, b, 64>>) = NoFlags

\* C12: a fragmentation unit whose start flag is clear is classified with no
\* flag whatever the type field in its header says, and its Ingest returns
\* false, changes no slot and does not reset the GOP buffer.
C12_NonStartFragment ==
  /\ []NonStartUnclassified
  /\ [][(Called("CachePack") /\ Channel(Last(log').pack) = ChannelVideo
           /\ IsFuNonStart(Payload(Last(log').pack))) =>
          /\ ~Last(log').ret /\ ~Last(log').panic
          /\ SlotsOf(cache') = SlotsOf(cache)
          /\ IsPrefix(cache.gop, cache'.gop)]_vars

\* a continuation fragment whose type field is the VPS code was ingested
\* while a slot was filled and a GOP was buffered
C12_Witness ==
  /\ log # << >> /\ Last(log).op = "CachePack"
  /\ IsFuNonStart(Payload(Last(log).pack))
  /\ Payload(Last(log).pack)[3] % 64 = NalVps
  /\ cache.vps # Nil /\ cache.vps # Last(log).pack
  /\ Len(cache.gop) >= 2

IsFuStart(p) == IsFu(p) /\ (p[3] \div 128) % 2 = 1

\* calls i, i+1, i+2 ingest the start fragment of a keyframe-class unit and
\* two later fragments of a unit
FragmentedKeyframeAt(i) ==
  /\ i + 2 <= Len(log)
  /\ \A j \in i..(i + 2) : log[j].op = "CachePack" /\ Channel(log[j].pack) = ChannelVideo
  /\ IsFuStart(Payload(log[i].pack))
  /\ Payload(log[i].pack)[3] % 64 \in NalBlaWLp..NalCraNut
  /\ IsFuNonStart(Payload(log[i + 1].pack))
  /\ IsFuNonStart(Payload(log[i + 2].pack))

\* C17: when the start fragment of a keyframe-class unit and then two later
\* fragments are ingested, Ingest returns true for the start fragment and
\* false for the later ones, and with GOP caching the buffer then holds the
\* three fragments in arrival order.
C17_FragmentedKeyframe ==
  \A i \in 1..Len(log) : FragmentedKeyframeAt(i) =>
    /\ log[i].ret /\ ~log[i].panic
    /\ ~log[i + 1].ret /\ ~log[i + 1].panic
    /\ ~log[i + 2].ret /\ ~log[i + 2].panic
    /\ (i + 2 = Len(log) /\ cache.cacheGop) =>
         cache.gop = <<log[i].pack, log[i + 1].pack, log[i + 2].pack>>

\* after another GOP, a CRA unit arrived as start, continuation and end
\* fragment and the buffer holds exactly the three
C17_Witness ==
  /\ Len(log) = 4
  /\ log[1].op = "CachePack" /\ log[1].ret
  /\ FragmentedKeyframeAt(2)
  /\ Payload(log[3].pack)[3] = NalCraNut
  /\ Payload(log[4].pack)[3] = 64 + NalCraNut
  /\ Len(cache.gop) = 3

Fields == {"vps", "sps", "pps", "gop"}

\* C18: an Ingest call changes at most one of the VPS slot, the SPS slot, the
\* PPS slot and the GOP buffer: the VPS slot if the packet carries a VPS,
\* else the SPS slot if it carries an SPS, else the PPS slot if it carries a
\* PPS, else at most the GOP buffer.
C18_OneFieldPerIngest ==
  [][Called("CachePack") =>
       /\ Cardinality({f \in Fields : cache'[f] # cache[f]}) <= 1
       /\ IsIngest(Last(log')) =>
            LET pack == Last(log').pack
                t == Class(pack)
            IN IF t.vps THEN cache' = [cache EXCEPT !.vps = pack]
               ELSE IF t.sps THEN cache' = [cache EXCEPT !.sps = pack]
               ELSE IF t.pps THEN cache' = [cache EXCEPT !.pps = pack]
               ELSE SlotsOf(cache') = SlotsOf(cache)]_vars

\* a packet with a VPS and an SPS went to the VPS slot while the SPS slot
\* kept an older packet and a GOP was buffered
C18_Witness ==
  /\ log # << >> /\ Ingested(Len(log))
  /\ Class(Last(log).pack).vps /\ Class(Last(log).pack).sps
  /\ cache.vps = Last(log).pack
  /\ cache.sps # Nil /\ cache.sps # Last(log).pack
  /\ cache.gop # << >>

\* C19: a Replay leaves the three slots and the GOP buffer unchanged and the
\* queue it was given is a prefix of the queue afterwards.
C19_ReplayAppendOnly ==
  [][Called("PushTo") => (cache' = cache /\ IsPrefix(q, q'))]_vars

\* a Replay has pushed a slot and a GOP behind the packets of an earlier
\* Replay
C19_Witness ==
  /\ log # << >> /\ Last(log).op = "PushTo"
  /\ Last(log).qlen >= 1
  /\ Len(q) >= Last(log).qlen + 2
  /\ cache.gop # << >> /\ Slots(cache) # << >>

\* C20: a filled slot is emptied by no call but Reset, and an Ingest that
\* returns true (a keyframe opening a new GOP) changes no slot.
C20_SlotsStayFilled ==
  [][/\ \A k \in Kinds : (cache[k] # Nil /\ ~Called("Reset")) => cache'[k] # Nil
     /\ (Called("CachePack") /\ Last(log').ret) => SlotsOf(cache') = SlotsOf(cache)]_vars

\* a second keyframe has opened a new GOP in a cache with a filled slot
C20_Witness ==
  /\ Len(log) >= 3
  /\ Ingested(Len(log)) /\ Last(log).ret
  /\ Ingested(Len(log) - 1) /\ log[Len(log) - 1].ret
  /\ cache.gop = <<Last(log).pack>>
  /\ Slots(cache) # << >>

\* the scan of scan.payload has ended, by a return or by a panic
ScanEnded == scan.pc \in {"done", "panic"}

\* the step-by-step scan ends with what getPalyloadType yields
ScanStepsAgree ==
  ScanEnded => [scan.f EXCEPT !.panic = (scan.pc = "panic")] = getPalyloadType(scan.payload)

\* C14: an iteration of the aggregation scan either ends the scan or moves
\* the read offset forward by at least 3 bytes, and the number of iterations
\* never exceeds the payload length.
C14_ScanTerminates ==
  /\ [](scan.iters <= Len(scan.payload) /\ 2 + 3 * scan.iters <= scan.off + 3)
  /\ [][scan.pc = "ap" => (scan'.pc \in {"done", "panic"} \/ scan'.off >= scan.off + 3)]_vars

\* the scan has gone through two units and is at the top of the loop again
C14_Witness == scan.pc = "ap" /\ scan.iters = 2 /\ scan.off = 8

\* The embedded units of an aggregation payload as the format defines them:
\* from offset 2, a 2-byte big-endian length and that many bytes, repeated.
\* types are the type fields of the units that lie inside the payload; stop is
\* "zero" at a zero length field, "past" at a length that runs past the end
\* of the payload, "end" where no complete length field is left.
RECURSIVE UnitsOf(_, _, _)
UnitsOf(p, off, types) ==
  IF off + 2 > Len(p) THEN [types |-> types, stop |-> "end"]
  ELSE LET len == p[off + 1] * 256 + p[off + 2]
       IN IF len = 0 THEN [types |-> types, stop |-> "zero"]
          ELSE IF off + 2 + len > Len(p) THEN [types |-> types, stop |-> "past"]
          ELSE UnitsOf(p, off + 2 + len, types \cup {(p[off + 3] \div 2) % 64})

IsAp(p) == Len(p) >= 3 /\ (p[1] \div 2) % 64 = NalStapInRtp

\* the flags of a packet whose units have the types T
FlagsOf(T) ==
  [vps |-> NalVps \in T, sps |-> NalSps \in T, pps |-> NalPps \in T,
   islice |-> T \cap (NalBlaWLp..NalCraNut) # {}, panic |-> FALSE]

\* C15: when the units of an aggregation packet are followed by a zero length
\* field, the scan returns the union of the flags of the units before that
\* field; what follows the field contributes nothing.
C15_ZeroLengthStops ==
  (ScanEnded /\ IsAp(scan.payload) /\ UnitsOf(scan.payload, 2, {}).stop = "zero") =>
    (scan.pc = "done" /\ scan.f = FlagsOf(UnitsOf(scan.payload, 2, {}).types))

\* a VPS unit, a zero length field and a keyframe unit behind it: the scan
\* has returned the VPS flag only
C15_Witness ==
  /\ scan.pc = "done"
  /\ scan.payload = <<96, 1, 0, 1, 64, 0, 0, 0, 1, 38>>
  /\ scan.f.vps /\ ~scan.f.islice
  /\ scan.iters = 2

\* C16: when the units of an aggregation packet are followed by a unit whose
\* length runs past the end of the payload, a scan that returns yields the
\* union of the flags of the units before it; the unit itself contributes
\* nothing.
C16_PastEndStops ==
  (scan.pc = "done" /\ IsAp(scan.payload) /\ UnitsOf(scan.payload, 2, {}).stop = "past") =>
    scan.f = FlagsOf(UnitsOf(scan.payload, 2, {}).types)

\* C13: under fair scheduling every Ingest and Reset call that was entered
\* returns, and every Replay call that was entered returns.
C13_EveryCallReturns ==
  /\ (writer.pc # "idle") ~> (writer.pc = "idle")
  /\ \A r \in Readers : (readers[r].pc # "idle") ~> (readers[r].pc = "done")

====
